---- MODULE Spec2Model ----
(***************************************************************************)
(* A model of squrrl: the statement mapping, the fluent stages that fill   *)
(* it and the renderer that turns it into SQL text.                        *)
(*                                                                         *)
(* Text is a sequence of atoms.  An atom is one token of SQL text, one     *)
(* space " " or one newline "\n"; a line is a sequence of atoms without    *)
(* newline.  Python's  a + b  on strings is  \o  on atom sequences.        *)
(* Literal text given by the caller is made of tokens and single spaces.   *)
(***************************************************************************)
EXTENDS Integers, Sequences, FiniteSets, TLC

VARIABLES
    crits,      \* core_draft: the Criterion objects, by identity (index)
    objs,       \* core_draft: the clause / stage objects, by identity
    stmts,      \* core_draft: the statement dicts, by identity; insertion ordered
    param_str,  \* core_draft: Param.Config.param_str
    cstages,    \* select.py: the stage objects, by identity; st is self.statement
    cstmts,     \* select.py: the statement dicts, by identity; insertion ordered
    clists,     \* select.py: the list objects held by statements, by identity
    hist,       \* history, one record per stage: the call that made it
    params,     \* the Param objects of core and core_draft, by identity
    core_param_str, \* core: Param.Config.param_str
    tables,     \* core_draft: the Table classes (proxies included), by identity
    schemas,    \* core_draft: the Schema classes, by identity
    columns,    \* core_draft: the Column descriptors held by classes, by identity
    got,        \* the last class attribute read and the Column that __get__ made
    out         \* the last call made and what it returned (or raised)

draftVars == <<crits, objs, stmts, param_str>>

coreVars == <<cstages, cstmts, clists, hist>>

paramVars == <<params, core_param_str>>

pathVars == <<tables, schemas, columns, got>>

vars ==
    <<crits, objs, stmts, param_str, cstages, cstmts, clists, hist,
      params, core_param_str, tables, schemas, columns, got, out>>

----------------------------------------------------------------------------
(* Bounds of the model *)

MaxIndent == 2      \* the indents rendered are None and 0..MaxIndent
OrderKeys == 3      \* SpecOrder: keys assigned directly to the statement
DraftHeap == 4      \* SpecDraft: clause / stage objects and conditions
BuilderStages == 4  \* SpecBuilder: stage objects
SetOpStages == 4    \* SpecSetOps: stage objects
RenderHeap == 3     \* SpecRender: clause / stage objects and conditions
RenderStages == 2   \* SpecRender: stage objects of select.py
SelectHeap == 3     \* SpecSelect: SELECT objects
ParamHeap == 2      \* SpecParam: Param objects
WithStages == 3     \* SpecWith: stage objects
ChainHeap == 2      \* SpecChain: Criterion objects
PathClasses == 3    \* SpecPath: Table classes, proxies included
OrderByStages == 4  \* SpecOrderBy: stage objects
CritHeap == 3       \* SpecCrit: conditions

NoIndent == 0 - 1           \* indent=None
Indents == {NoIndent} \cup (0..MaxIndent)

----------------------------------------------------------------------------
(* Values *)

Lit(s) == [k |-> "lit", s |-> s, n |-> 0]          \* a LiteralString
ParamV(name) == [k |-> "param", s |-> name, n |-> 0] \* Param(name); <<>> is name=None
TableV(schema, name) == [k |-> "table", s |-> <<schema, name>>, n |-> 0]
CritRef(i) == [k |-> "crit", s |-> <<>>, n |-> i]
ObjRef(i) == [k |-> "obj", s |-> <<>>, n |-> i]

(* What get_sql_parts returns: a str (one line), a list of lines, or an   *)
(* exception.  v is always a sequence of lines.                           *)
Str(l) == [t |-> "str", v |-> <<l>>]
Lst(ls) == [t |-> "list", v |-> ls]
Err(e) == [t |-> "err", v |-> <<<<e>>>>]
IsErr(r) == r.t = "err"

Spaces(n) == [i \in 1..n |-> " "]

add_indent(l, indent) == [i \in 1..Len(l) |-> Spaces(indent) \o l[i]]

is_not_none(a) == a # ""

RECURSIVE cat(_, _)
cat(strs, delim) ==
    IF strs = <<>> THEN <<>>
    ELSE LET rest == cat(Tail(strs), delim)
         IN IF ~is_not_none(Head(strs)) THEN rest
            ELSE IF rest = <<>> THEN <<Head(strs)>>
            ELSE <<Head(strs), delim>> \o rest

RECURSIVE join(_, _)
join(sep, res) ==
    IF res = <<>> THEN <<>>
    ELSE IF Len(res) = 1 THEN res[1]
    ELSE res[1] \o <<sep>> \o join(sep, Tail(res))

AddToLast(res, s) == [res EXCEPT ![Len(res)] = @ \o s]
PrefixFirst(res, s) == [res EXCEPT ![1] = s \o @]

----------------------------------------------------------------------------
(* The statement dict (insertion ordered) *)

Has(statement, key) == \E i \in 1..Len(statement) : statement[i].key = key

Get(statement, key) ==
    statement[CHOOSE i \in 1..Len(statement) : statement[i].key = key].val

\* statement[key] = val : a present key keeps its position
SetItem(statement, key, val) ==
    IF Has(statement, key)
    THEN [i \in 1..Len(statement) |->
             IF statement[i].key = key THEN [key |-> key, val |-> val]
             ELSE statement[i]]
    ELSE Append(statement, [key |-> key, val |-> val])

Keys(statement) == [i \in 1..Len(statement) |-> statement[i].key]

Items(statement) == {statement[i] : i \in 1..Len(statement)}

order ==
    <<"WITH", "SELECT", "FROM", "WHERE", "GROUP_BY", "WINDOW",
      "SET_OPERATIONS", "ORDER_BY", "LIMIT", "OFFSET", "FETCH">>

\* the clause keys Statement_SELECT declares, in declaration order
Statement_SELECT ==
    <<"WITH", "SELECT", "FROM", "WHERE", "GROUP_BY", "HAVING", "WINDOW",
      "SET_OPERATIONS", "ORDER_BY", "LIMIT", "OFFSET", "FETCH">>

----------------------------------------------------------------------------
(* core_draft: get_sql_parts of every class *)

Param_get_sql_parts(x) ==
    IF x.s # <<>> THEN Str(<<":">> \o x.s) ELSE Str(param_str)

Table_get_sql_parts(x) == Str(cat(x.s, "."))

GROUP_BY_get_sql_parts(self) == Str(<<>>)

\* the depth a render can reach without meeting an object twice; a deeper
\* recursion is an unbounded one (RecursionError)
Fuel == Len(crits) + Len(objs) + 2

RECURSIVE get_sql_parts(_, _, _)
RECURSIVE _get_sql_part_helper(_, _, _)
RECURSIVE Criterion_get_sql_parts(_, _, _)
RECURSIVE SELECT_loop(_, _, _, _, _)

SELECT_loop(cols, i, res, indent, d) ==
    IF i > Len(cols) THEN Lst(res)
    ELSE LET col == cols[i]
             tmp == IF col.k = "lit" THEN Str(col.s)
                    ELSE get_sql_parts(col, indent, d)
         IN IF IsErr(tmp) THEN tmp
            ELSE LET r1 == IF tmp.t = "str"
                           THEN Append(res, Spaces(indent) \o tmp.v[1])
                           ELSE res \o add_indent(tmp.v, indent)
                     r2 == IF i < Len(cols) THEN AddToLast(r1, <<",">>) ELSE r1
                 IN SELECT_loop(cols, i + 1, r2, indent, d)

\* a SELECT that never writes its quantifier
SELECT_get_sql_parts_all(self, indent, d) ==
    SELECT_loop(self.cols, 1, << <<"SELECT">> >>, indent, d)

SELECT_get_sql_parts(self, indent, d) ==
    SELECT_loop(self.cols, 1,
                <<IF self.mode = "ALL" THEN <<"SELECT">>
                  ELSE <<"SELECT", " ", "DISTINCT">> >>,
                indent, d)

FROM_get_sql_parts(self, indent, d) ==
    LET table == get_sql_parts(self.arg, indent, d)
    IN IF IsErr(table) THEN table
       ELSE IF table.t = "str"
       THEN Lst(<< <<"FROM">>, Spaces(indent) \o table.v[1] >>)
       ELSE Lst(<< <<"FROM">> >> \o add_indent(table.v, indent))

WHERE_get_sql_parts(self, indent, d) ==
    LET tmp == get_sql_parts(self.arg, indent, d)
    IN IF IsErr(tmp) THEN tmp
       ELSE IF tmp.t = "list"
       THEN Lst(<< <<"WHERE">> >> \o add_indent(tmp.v, indent))
       ELSE Lst(<< <<"WHERE">>, tmp.v[1] >>)

\* isinstance(tmp, LiteralString) raises TypeError for every tmp
WITH_get_sql_parts(self, indent, d) ==
    LET tmp == get_sql_parts(self.arg, indent, d)
    IN IF IsErr(tmp) THEN tmp ELSE Err("TypeError")

\* a helper that parenthesises lists only
_get_sql_part_helper_bare(part, indent, d) ==
    LET sql_parts == IF part.k = "lit" THEN Str(part.s)
                     ELSE get_sql_parts(part, indent, d)
    IN IF IsErr(sql_parts) THEN sql_parts
       ELSE IF sql_parts.t = "list"
       THEN Lst(<< <<"(">> >> \o add_indent(sql_parts.v, indent) \o << <<")">> >>)
       ELSE sql_parts

_get_sql_part_helper(part, indent, d) ==
    LET sql_parts == IF part.k = "lit" THEN Str(part.s)
                     ELSE get_sql_parts(part, indent, d)
    IN IF IsErr(sql_parts) THEN sql_parts
       ELSE IF sql_parts.t = "list"
       THEN Lst(<< <<"(">> >> \o add_indent(sql_parts.v, indent) \o << <<")">> >>)
       ELSE IF part.k = "crit"
       THEN Str(<<"(">> \o sql_parts.v[1] \o <<")">>)
       ELSE sql_parts

\* a condition written without spaces around its operator
Criterion_get_sql_parts_tight(self, indent, d) ==
    LET le == _get_sql_part_helper(self.le, indent, d)
        ri == _get_sql_part_helper(self.ri, indent, d)
    IN IF IsErr(le) THEN le
       ELSE IF IsErr(ri) THEN ri
       ELSE Str(le.v[1] \o self.op \o ri.v[1])

Criterion_get_sql_parts(self, indent, d) ==
    LET le == _get_sql_part_helper(self.le, indent, d)
        ri == _get_sql_part_helper(self.ri, indent, d)
    IN IF IsErr(le) THEN le
       ELSE IF IsErr(ri) THEN ri
       ELSE IF le.t = "str" /\ ri.t = "str"
       THEN Str(le.v[1] \o <<" ">> \o self.op \o <<" ">> \o ri.v[1])
       ELSE LET r1 == AddToLast(le.v, <<" ">> \o self.op \o <<" ">>)
                r2 == IF ri.t = "list" THEN r1 \o ri.v
                      ELSE AddToLast(r1, ri.v[1])
                r3 == IF self.neg THEN PrefixFirst(r2, <<"NOT", " ">>) ELSE r2
            IN IF ~self.hasPrev THEN Err("AttributeError")   \* self._prev was never set
               ELSE LET prev == get_sql_parts(CritRef(self.prevCr), indent, d)
                    IN IF IsErr(prev) THEN prev
                       ELSE Lst(prev.v \o PrefixFirst(r3, self.prevOp \o <<" ">>))

\* x.get_sql_parts(indent), dispatched on the class of x
get_sql_parts(x, indent, d) ==
    IF x.k = "lit" THEN Err("AttributeError")     \* str has no get_sql_parts
    ELSE IF x.k = "param" THEN Param_get_sql_parts(x)
    ELSE IF x.k = "table" THEN Table_get_sql_parts(x)
    ELSE IF d = 0 THEN Err("RecursionError")
    ELSE IF x.k = "crit" THEN Criterion_get_sql_parts(crits[x.n], indent, d - 1)
    ELSE LET self == objs[x.n]
         IN IF self.kind = "SELECT" THEN SELECT_get_sql_parts(self, indent, d - 1)
            ELSE IF self.kind = "FROM" THEN FROM_get_sql_parts(self, indent, d - 1)
            ELSE IF self.kind = "WHERE" THEN WHERE_get_sql_parts(self, indent, d - 1)
            ELSE IF self.kind = "WITH" THEN WITH_get_sql_parts(self, indent, d - 1)
            ELSE GROUP_BY_get_sql_parts(self)

----------------------------------------------------------------------------
(* core_draft: _HasStateSelect.get_sql *)

Text(v) == [t |-> "text", v |-> v]
Raised(e) == [t |-> "err", v |-> e]

RECURSIVE get_sql_loop(_, _, _, _, _)
get_sql_loop(statement, parts, i, res, indent_) ==
    IF i > Len(parts) THEN Lst(res)
    ELSE IF ~Has(statement, parts[i])
    THEN get_sql_loop(statement, parts, i + 1, res, indent_)
    ELSE LET tmp == get_sql_parts(Get(statement, parts[i]), indent_, Fuel)
         IN IF IsErr(tmp) THEN tmp
            ELSE get_sql_loop(statement, parts, i + 1, res \o tmp.v, indent_)

\* a renderer that walks the statement's own keys, in insertion order
get_sql_order_insertion(statement) ==
    SelectSeq(Keys(statement), LAMBDA key : \E i \in 1..Len(order) : order[i] = key)

get_sql_order(statement) == order

\* "indent or 1": an unset indent that indents
get_sql_indent_one(indent) == IF indent = NoIndent THEN 1 ELSE indent

get_sql_indent(indent) == IF indent = NoIndent THEN 0 ELSE indent

get_sql(statement, indent) ==
    LET indent_ == get_sql_indent(indent)
        res == get_sql_loop(statement, get_sql_order(statement), 1, <<>>, indent_)
    IN IF IsErr(res) THEN Raised(res.v[1])
       ELSE IF indent = NoIndent THEN Text(join(" ", res.v))
       ELSE Text(join("\n", res.v))

----------------------------------------------------------------------------
(* core_draft: the objects and the calls that build them *)

Obj(kind, st, cols, mode, arg) ==
    [kind |-> kind, st |-> st, cols |-> cols, mode |-> mode, arg |-> arg]

None == Lit(<<>>)

\* the record of a call that is not a render
Called(op) == [op |-> op, who |-> 0, indent |-> 0, t |-> "none", v |-> <<>>]

\* the record of a render: the call, its receiver and its result
Rendered(op, who, indent, r) ==
    [op |-> op, who |-> who, indent |-> indent, t |-> r.t, v |-> r.v]

Stages == {o \in 1..Len(objs) : objs[o].st # 0}

\* SELECT.__init__(with_clause, select_mode, *cols), reached from
\* SqlBuilder.SELECT / SELECT_DISTINCT (with_clause None) and WITH.SELECT
SELECT_init(with_clause, select_mode, cols) ==
    /\ with_clause = None \/ with_clause.k = "obj"
    /\ LET self == Len(objs) + 1
           base == << [key |-> "type", val |-> Lit(<<"SELECT">>)],
                      [key |-> "SELECT", val |-> ObjRef(self)] >>
       IN /\ objs' = Append(objs, Obj("SELECT", Len(stmts) + 1, cols, select_mode, None))
          /\ stmts' = Append(stmts,
                 IF with_clause # None THEN SetItem(base, "WITH", with_clause)
                 ELSE base)
    /\ out' = Called("SELECT")
    /\ UNCHANGED <<crits, param_str, coreVars, paramVars, pathVars>>

\* WITH.__init__(table, alias), reached from SqlBuilder.WITH
WITH_init(table) ==
    /\ table.k \in {"table", "obj"}
    /\ objs' = Append(objs, Obj("WITH", 0, <<>>, "", table))
    /\ out' = Called("WITH")
    /\ UNCHANGED <<crits, stmts, param_str, coreVars, paramVars, pathVars>>

\* the dict the new stage holds as self.statement
FROM_statement(with_statement) == with_statement

\* _FROM_able.FROM(table) -> FROM.__init__(self.statement, table)
FROM_init(prev, table) ==
    /\ prev \in Stages
    /\ objs[prev].kind = "SELECT"
    /\ LET self == Len(objs) + 1
           statement == FROM_statement(objs[prev].st)
       IN /\ objs' = Append(objs, Obj("FROM", statement, <<>>, "", table))
          /\ stmts' = [stmts EXCEPT ![statement] = SetItem(@, "FROM", ObjRef(self))]
    /\ out' = Called("FROM")
    /\ UNCHANGED <<crits, param_str, coreVars, paramVars, pathVars>>

\* _WHERE_able.WHERE(condition) -> WHERE.__init__(self.statement, condition)
WHERE_init(prev, condition) ==
    /\ prev \in Stages
    /\ objs[prev].kind \in {"SELECT", "FROM"}
    /\ condition \in 1..Len(crits)
    /\ LET self == Len(objs) + 1
           statement == objs[prev].st
       IN /\ objs' = Append(objs, Obj("WHERE", statement, <<>>, "", CritRef(condition)))
          /\ stmts' = [stmts EXCEPT ![statement] = SetItem(@, "WHERE", ObjRef(self))]
    /\ out' = Called("WHERE")
    /\ UNCHANGED <<crits, param_str, coreVars, paramVars, pathVars>>

\* GROUP_BY.__init__()
GROUP_BY_init ==
    /\ TRUE
    /\ objs' = Append(objs, Obj("GROUP_BY", 0, <<>>, "", None))
    /\ out' = Called("GROUP_BY")
    /\ UNCHANGED <<crits, stmts, param_str, coreVars, paramVars, pathVars>>

\* statement[key] = value, by the owner of the dict
setitem(statement, key, value) ==
    /\ statement \in 1..Len(stmts)
    /\ stmts' = [stmts EXCEPT ![statement] = SetItem(@, key, value)]
    /\ out' = Called("setitem")
    /\ UNCHANGED <<crits, objs, param_str, coreVars, paramVars, pathVars>>

\* Criterion.__init__(le, op, ri, neg); Criterion.NOT is neg = TRUE
Criterion_init(le, op, ri, neg) ==
    /\ neg \in BOOLEAN
    /\ crits' = Append(crits, [le |-> le, op |-> op, ri |-> ri, neg |-> neg,
                               hasPrev |-> FALSE, prevOp |-> <<>>, prevCr |-> 0])
    /\ out' = Called("Criterion")
    /\ UNCHANGED <<objs, stmts, param_str, coreVars, paramVars, pathVars>>

\* Criterion.AND / Criterion.OR: criterion._prev = {"op": op, "cr": self}
Chain(self, op, criterion) ==
    /\ self \in 1..Len(crits)
    /\ criterion \in 1..Len(crits)
    /\ crits' = [crits EXCEPT ![criterion] =
                    [@ EXCEPT !.hasPrev = TRUE, !.prevOp = <<op>>, !.prevCr = self]]
    /\ out' = Called(op)
    /\ UNCHANGED <<objs, stmts, param_str, coreVars, paramVars, pathVars>>

AND(self, criterion) == Chain(self, "AND", criterion)

OR(self, criterion) == Chain(self, "OR", criterion)

\* a SELECT.get_sql_parts that writes each indented column back into self.cols
call_get_sql_writes_cols(self, indent) ==
    /\ self \in Stages
    /\ out' = Rendered("get_sql", self, indent, get_sql(stmts[objs[self].st], indent))
    /\ objs' = [o \in 1..Len(objs) |->
                  IF objs[o].kind = "SELECT" /\ objs[o].st = objs[self].st
                  THEN [objs[o] EXCEPT !.cols =
                          [j \in 1..Len(@) |->
                              [@[j] EXCEPT !.s = Spaces(get_sql_indent(indent)) \o @]]]
                  ELSE objs[o]]
    /\ UNCHANGED <<crits, stmts, param_str, coreVars, paramVars, pathVars>>

\* stage.get_sql(indent)
call_get_sql(self, indent) ==
    /\ self \in Stages
    /\ out' = Rendered("get_sql", self, indent, get_sql(stmts[objs[self].st], indent))
    /\ UNCHANGED <<crits, objs, stmts, param_str, coreVars, paramVars, pathVars>>

\* x.get_sql_parts(indent) of a clause object or a condition
call_get_sql_parts(x, indent) ==
    /\ indent # NoIndent
    /\ out' = Rendered(IF x.k = "crit" THEN "Criterion.get_sql_parts" ELSE "get_sql_parts",
                       x.n, indent, get_sql_parts(x, indent, Fuel))
    /\ UNCHANGED <<crits, objs, stmts, param_str, coreVars, paramVars, pathVars>>

\* no class attribute read yet
NoColumn == [tbl |-> 0, attr |-> <<>>, name |-> <<>>, table_name |-> <<>>,
             schema_name |-> <<>>]

Init ==
    /\ crits = <<>>
    /\ objs = <<>>
    /\ stmts = <<>>
    /\ param_str = <<"%s">>
    /\ cstages = <<>>
    /\ cstmts = <<>>
    /\ clists = <<>>
    /\ hist = <<>>
    /\ params = <<>>
    /\ core_param_str = <<"%s">>
    /\ tables = <<>>
    /\ schemas = <<>>
    /\ columns = <<[name |-> <<"*">>]>>
    /\ got = NoColumn
    /\ out = Called("init")

----------------------------------------------------------------------------
(* core / select.py / __init__.py: statements of plain values and the     *)
(* builder stages                                                         *)

CStr(s) == [k |-> "str", s |-> s, n |-> 0]       \* text (or any opaque value)
CEnum(name) == [k |-> "enum", s |-> <<name>>, n |-> 0]
CList(n) == [k |-> "list", s |-> <<>>, n |-> n]  \* the list object n
CWith(n) == [k |-> "with", s |-> <<>>, n |-> n]  \* the WITH dict WithPool[n]

Entry(key, val) == [key |-> key, val |-> val]

construct_empty_select_statement ==
    << Entry("type", CEnum("SELECT")), Entry("SELECT", CStr(<<"*">>)) >>

\* copy.deepcopy of a statement: the dict and every list it holds are new
\* objects; returns the copy and the heap of lists that holds its lists
RECURSIVE deepcopy_loop(_, _, _, _)
deepcopy_loop(statement, i, acc, lists) ==
    IF i > Len(statement) THEN [statement |-> acc, lists |-> lists]
    ELSE IF statement[i].val.k = "list"
    THEN deepcopy_loop(statement, i + 1,
                       Append(acc, Entry(statement[i].key, CList(Len(lists) + 1))),
                       Append(lists, lists[statement[i].val.n]))
    ELSE deepcopy_loop(statement, i + 1, Append(acc, statement[i]), lists)

\* copy.copy: a new dict that holds the same list objects
deepcopy_shallow(statement, lists) == [statement |-> statement, lists |-> lists]

deepcopy(statement, lists) == deepcopy_loop(statement, 1, <<>>, lists)

\* a statement as a value: every list replaced by its elements
DeepVal(statement, lists) ==
    [i \in 1..Len(statement) |->
        [key |-> statement[i].key,
         val |-> IF statement[i].val.k = "list" THEN CList(0) ELSE statement[i].val,
         items |-> IF statement[i].val.k = "list" THEN lists[statement[i].val.n]
                   ELSE <<>>]]

\* the classes that inherit each _X_able mixin
Able(method) ==
    LET set_able == {"UNION", "INTERSECT", "EXCEPT", "WINDOW", "HAVING",
                     "GROUP_BY", "WHERE", "FROM", "SELECT"}
    IN CASE method = "OFFSET" -> set_able \cup {"LIMIT", "ORDER_BY"}
         [] method = "LIMIT" -> set_able \cup {"ORDER_BY"}
         [] method \in {"ORDER_BY", "UNION", "INTERSECT", "EXCEPT"} -> set_able
         [] method = "WINDOW" -> {"HAVING", "GROUP_BY", "WHERE", "FROM", "SELECT"}
         [] method = "HAVING" -> {"GROUP_BY"}
         [] method = "GROUP_BY" -> {"WHERE", "FROM", "SELECT"}
         [] method = "WHERE" -> {"FROM", "SELECT"}
         [] method = "FROM" -> {"SELECT"}
         [] method = "SELECT" -> {"WITH", "SQLQuery"}
         [] method = "WITH" -> {"SQLQuery"}

CanCall(with_context, method) ==
    /\ with_context \in 1..Len(cstages)
    /\ cstages[with_context].cls \in Able(method)

StatementOf(stage) == cstmts[cstages[stage].st]

\* the new stage object, its statement, and the record of the call
NewStage(cls, statement, lists, parent, key, calls) ==
    /\ cstages' = Append(cstages, [cls |-> cls, st |-> Len(cstmts) + 1])
    /\ cstmts' = Append(cstmts, statement)
    /\ clists' = lists
    /\ hist' = Append(hist, [parent |-> parent, key |-> key,
                             snap |-> DeepVal(statement, lists), calls |-> calls])
    /\ out' = Called(cls)
    /\ UNCHANGED <<draftVars, paramVars, pathVars>>

CallsOf(stage) == IF stage = 0 THEN <<>> ELSE hist[stage].calls

\* SQLQuery.__init__(statement): the empty SELECT statement when None
SQLQuery_init(statement) ==
    NewStage("SQLQuery",
             IF statement = <<>> THEN construct_empty_select_statement ELSE statement,
             clists, 0, "", <<>>)

\* the stages that set one key:  self.statement = deepcopy(...); self.statement[key] = value
SetKeyStage(cls, with_context, value) ==
    /\ CanCall(with_context, cls)
    /\ LET c == deepcopy(StatementOf(with_context), clists)
       IN NewStage(cls, SetItem(c.statement, cls, value), c.lists,
                   with_context, cls, CallsOf(with_context))

\* _WITH_able.WITH(w) -> WITH.__init__(self.statement, w)
select_WITH(with_context, w) == SetKeyStage("WITH", with_context, w)

select_FROM(with_context, f) == SetKeyStage("FROM", with_context, f)

select_WHERE(with_context, condition) == SetKeyStage("WHERE", with_context, condition)

select_GROUP_BY(with_context, g) == SetKeyStage("GROUP_BY", with_context, g)

select_HAVING(with_context, condition) == SetKeyStage("HAVING", with_context, condition)

select_LIMIT(with_context, limit) == SetKeyStage("LIMIT", with_context, limit)

select_OFFSET(with_context, offset) == SetKeyStage("OFFSET", with_context, offset)

\* _SELECT_able.SELECT(s): a new empty SELECT statement that keeps only WITH,
\* handed to SELECT.__init__(building_statement, s)
select_SELECT(with_context, s) ==
    /\ CanCall(with_context, "SELECT")
    /\ LET select_statement ==
               IF Has(StatementOf(with_context), "WITH")
               THEN SetItem(construct_empty_select_statement, "WITH",
                            Get(StatementOf(with_context), "WITH"))
               ELSE construct_empty_select_statement
           c == deepcopy(select_statement, clists)
       IN NewStage("SELECT", SetItem(c.statement, "SELECT", s), c.lists,
                   with_context, "SELECT", CallsOf(with_context))

\* ORDER_BY.__init__: self.statement["ORDER_BY"] = list(order_by)
select_ORDER_BY(with_context, order_by) ==
    /\ CanCall(with_context, "ORDER_BY")
    /\ LET c == deepcopy(StatementOf(with_context), clists)
           lists == Append(c.lists, order_by)
       IN NewStage("ORDER_BY", SetItem(c.statement, "ORDER_BY", CList(Len(lists))),
                   lists, with_context, "ORDER_BY", CallsOf(with_context))

\* statement.get(key, []): the list the statement holds, or a new empty one;
\* id names the list object
GetList(c, key) ==
    LET has == Has(c.statement, key)
    IN [statement |-> c.statement,
        id |-> IF has THEN Get(c.statement, key).n ELSE Len(c.lists) + 1,
        lists |-> IF has THEN c.lists ELSE Append(c.lists, <<>>)]

\* WINDOW.__init__: ws = statement.get("WINDOW", []); ws.extend(windows);
\* statement["WINDOW"] = ws
select_WINDOW(with_context, windows) ==
    /\ CanCall(with_context, "WINDOW")
    /\ LET ws == GetList(deepcopy(StatementOf(with_context), clists), "WINDOW")
       IN NewStage("WINDOW", SetItem(ws.statement, "WINDOW", CList(ws.id)),
                   [ws.lists EXCEPT ![ws.id] = @ \o windows],
                   with_context, "WINDOW", CallsOf(with_context))

\* the "op" each set-operation class writes into its entry
UNION_op == "UNION"
INTERSECT_op == "UNION"
EXCEPT_op == "UNION"

\* the mode the _X_able methods hand on: X(s) has mode = "DISTINCT" as default,
\* X_ALL(s) and X_DISTINCT(s) are X(s, "ALL") and X(s, "DISTINCT")
SetOpMode(passed) == IF passed = "none" THEN "DISTINCT" ELSE passed

SetOpElem(op, mode, select) == [op |-> op, mode |-> mode, select |-> select]

\* UNION / INTERSECT / EXCEPT .__init__(with_context, s, mode)
SetOpStage(cls, op, with_context, s, passed) ==
    /\ CanCall(with_context, cls)
    /\ LET set_ops == GetList(deepcopy(StatementOf(with_context), clists),
                              "SET_OPERATIONS")
       IN NewStage(cls, SetItem(set_ops.statement, "SET_OPERATIONS", CList(set_ops.id)),
                   [set_ops.lists EXCEPT ![set_ops.id] =
                       Append(@, SetOpElem(op, SetOpMode(passed), s))],
                   with_context, "SET_OPERATIONS",
                   Append(CallsOf(with_context), SetOpElem(cls, passed, s)))

select_UNION(with_context, s, passed) ==
    SetOpStage("UNION", UNION_op, with_context, s, passed)

select_INTERSECT(with_context, s, passed) ==
    SetOpStage("INTERSECT", INTERSECT_op, with_context, s, passed)

select_EXCEPT(with_context, s, passed) ==
    SetOpStage("EXCEPT", EXCEPT_op, with_context, s, passed)

----------------------------------------------------------------------------
(* constructor.py: the renderer of core statements *)

\* the WITH dicts and the nested statements (CTE bodies) callers pass;
\* a nested statement is named by its index, a WITH dict by CWith(index)
WithQuery(as, expr) == [as |-> as, expr |-> expr]
NestedStmt(n) == [k |-> "stmt", s |-> <<>>, n |-> n]

StmtPool ==
    << construct_empty_select_statement,
       << Entry("type", CEnum("SELECT")), Entry("SELECT", CStr(<<"*">>)),
          Entry("WITH", CWith(2)) >> >>

WithPool ==
    << [recursive |-> "False", with_query |-> <<>>],
       [recursive |-> "absent",
        with_query |-> << WithQuery(<<"c">>, CStr(<<"SELECT", " ", "1">>)) >>],
       [recursive |-> "True",
        with_query |-> << WithQuery(<<"c">>, CStr(<<"SELECT", " ", "1">>)),
                          WithQuery(<<"d">>, NestedStmt(2)) >>],
       [recursive |-> "absent",
        with_query |-> << WithQuery(<<"e">>, NestedStmt(1)) >>] >>

_nl_join(l, indent) == join("\n", add_indent(l, indent))

_add_indent(l, indent) == add_indent(l, indent)

RECURSIVE construct_select_statement(_, _, _)
RECURSIVE _construct_with_loop(_, _, _, _)

_construct_with_loop(with_query, i, parts, indent) ==
    IF i > Len(with_query) THEN parts
    ELSE LET query == with_query[i]
             p1 == IF Len(parts) # 1 THEN AddToLast(parts, <<",">>) ELSE parts
             p2 == Append(p1, query.as \o <<" ", "AS", " ", "(">>)
             p3 == IF query.expr.k = "str"
                   THEN AddToLast(p2, query.expr.s \o <<")">>)
                   ELSE Append(
                          p2 \o _add_indent(
                                  construct_select_statement(
                                      StmtPool[query.expr.n], indent, TRUE).v,
                                  indent),
                          <<")">>)
         IN _construct_with_loop(with_query, i + 1, p3, indent)

\* a WITH clause that never says RECURSIVE
_construct_with_clause_plain(w, indent) ==
    _construct_with_loop(w.with_query, 1, << <<"WITH">> >>, indent)

_construct_with_clause(w, indent) ==
    _construct_with_loop(
        w.with_query, 1,
        << IF w.recursive = "True" THEN <<"WITH", " ", "RECURSIVE">>
           ELSE <<"WITH">> >>,
        indent)

construct_select_statement(statement, indent, return_parts) ==
    LET indent_ == IF indent = NoIndent THEN 0 ELSE indent
        parts == IF Has(statement, "WITH")
                 THEN << _nl_join(
                           _construct_with_clause(
                               WithPool[Get(statement, "WITH").n], indent_),
                           indent_) >>
                 ELSE <<>>
    IN IF return_parts THEN Lst(parts) ELSE Str(join("\n", parts))

construct_sql_str(statement, indent) ==
    IF Get(statement, "type") = CEnum("SELECT")
    THEN construct_select_statement(statement, indent, FALSE)
    ELSE Str(<<" ">>)

\* _construct_with_clause(statement["WITH"], indent) on the statement of a stage
call_construct_with_clause(self, indent) ==
    /\ self \in 1..Len(cstages)
    /\ Has(StatementOf(self), "WITH")
    /\ out' = Rendered("_construct_with_clause", self, indent,
                       Lst(_construct_with_clause(
                               WithPool[Get(StatementOf(self), "WITH").n], indent)))
    /\ UNCHANGED <<draftVars, coreVars, paramVars, pathVars>>

\* a renderer that takes the clause out of the statement: pop("WITH")
construct_sql_pops(self, indent) ==
    /\ self \in 1..Len(cstages)
    /\ out' = Rendered("construct_sql", self, indent,
                       construct_sql_str(StatementOf(self), indent))
    /\ cstmts' = [cstmts EXCEPT ![cstages[self].st] =
                     SelectSeq(@, LAMBDA e : e.key # "WITH")]
    /\ UNCHANGED <<draftVars, cstages, clists, hist, paramVars, pathVars>>

\* _WithContext.construct_sql(indent)
construct_sql(self, indent) ==
    /\ self \in 1..Len(cstages)
    /\ out' = Rendered("construct_sql", self, indent,
                       construct_sql_str(StatementOf(self), indent))
    /\ UNCHANGED <<draftVars, coreVars, paramVars, pathVars>>

----------------------------------------------------------------------------
(* Param of core and of core_draft: the cached placeholder *)

\* Param(name) of module cls; name <<>> is None.  cached / cache is what
\* cached_property keeps in the instance
Param_init(cls, name) ==
    /\ cls \in {"core", "core_draft"}
    /\ params' = Append(params, [cls |-> cls, name |-> name,
                                 cached |-> FALSE, cache |-> <<>>])
    /\ out' = Called("Param")
    /\ UNCHANGED <<draftVars, coreVars, core_param_str, pathVars>>

\* Param.Config.param_str of the module of self
Config_param_str(self) == IF self.cls = "core" THEN core_param_str ELSE param_str

\* a placeholder that is the bare name
Param_placeholder_bare(self) ==
    IF self.name # <<>> THEN self.name ELSE Config_param_str(self)

\* the body of Param.placeholder
Param_placeholder(self) ==
    IF self.name # <<>> THEN <<":">> \o self.name ELSE Config_param_str(self)

\* reading self.placeholder: cached_property runs the body once per instance
placeholder(self) ==
    IF params[self].cached THEN params[self].cache
    ELSE Param_placeholder(params[self])

\* the instance after self.placeholder was read
Cached(self) ==
    [params EXCEPT ![self] = [@ EXCEPT !.cached = TRUE, !.cache = placeholder(self)]]

\* p.placeholder
read_placeholder(self) ==
    /\ self \in 1..Len(params)
    /\ out' = Rendered("placeholder", self, 0, Str(placeholder(self)))
    /\ params' = Cached(self)
    /\ UNCHANGED <<draftVars, coreVars, core_param_str, pathVars>>

\* p.get_sql_parts(indent) of a core_draft Param
Param_call_get_sql_parts(self, indent) ==
    /\ self \in 1..Len(params)
    /\ params[self].cls = "core_draft"
    /\ out' = Rendered("Param.get_sql_parts", self, indent,
                       Param_get_sql_parts(ParamV(params[self].name)))
    /\ UNCHANGED <<draftVars, coreVars, paramVars, pathVars>>

\* constructor._get_placeholder(a), a a core Param
_get_placeholder(a) ==
    /\ a \in 1..Len(params)
    /\ params[a].cls = "core"
    /\ out' = Rendered("_get_placeholder", a, 0, Str(placeholder(a)))
    /\ params' = Cached(a)
    /\ UNCHANGED <<draftVars, coreVars, core_param_str, pathVars>>

\* constructor._get_placeholder(a), a not a Param: returned as it is
_get_placeholder_value(a) ==
    /\ a.k = "lit"
    /\ out' = Rendered("_get_placeholder", 0, 0, Str(a.s))
    /\ UNCHANGED <<draftVars, coreVars, paramVars, pathVars>>

\* Param.Config.param_str = s, in module cls
set_param_str(cls, s) ==
    /\ \/ cls = "core" /\ core_param_str' = s /\ UNCHANGED param_str
       \/ cls = "core_draft" /\ param_str' = s /\ UNCHANGED core_param_str
    /\ out' = Called("Config")
    /\ UNCHANGED <<crits, objs, stmts, coreVars, params, pathVars>>

----------------------------------------------------------------------------
(* constructor.py: the ORDER BY clause *)

\* a text is None or empty when it is <<>>
_is_not_none(a) == a # <<>>

\* delim.join(filter(_is_not_none, strs)); strs and delim are texts
RECURSIVE _cat(_, _)
_cat(strs, delim) ==
    IF strs = <<>> THEN <<>>
    ELSE LET rest == _cat(Tail(strs), delim)
         IN IF ~_is_not_none(Head(strs)) THEN rest
            ELSE IF \A i \in 1..Len(strs) - 1 : ~_is_not_none(Tail(strs)[i])
            THEN Head(strs)
            ELSE Head(strs) \o delim \o rest

\* sep.join(res); res and sep are texts
RECURSIVE join_str(_, _)
join_str(sep, res) ==
    IF res = <<>> THEN <<>>
    ELSE IF Len(res) = 1 THEN res[1]
    ELSE res[1] \o sep \o join_str(sep, Tail(res))

\* core.ORDER_BY: col, and order / nulls when given (<<>> when not)
OrderBy(col, order_, nulls) == [col |-> col, order |-> order_, nulls |-> nulls]

\* the body of the loop of _construct_order_by: one entry
_construct_order_by_part(it) ==
    LET _order_ == IF it.order # <<>>
                   THEN IF it.order = <<"ASC">> \/ it.order = <<"DESC">>
                        THEN it.order
                        ELSE <<"USING", " ">> \o it.order
                   ELSE <<>>
        nulls == IF it.nulls # <<>> THEN <<"NULLS", " ">> \o it.nulls ELSE <<>>
    IN _cat(<<it.col, nulls, _order_>>, <<",", " ">>)

_construct_order_by(orders) ==
    <<"ORDER", " ", "BY", " ">>
        \o join_str(<<",", " ">>,
                    [i \in 1..Len(orders) |-> _construct_order_by_part(orders[i])])

\* _construct_order_by(statement["ORDER_BY"]) on the statement of a stage
call_construct_order_by(self) ==
    /\ self \in 1..Len(cstages)
    /\ Has(StatementOf(self), "ORDER_BY")
    /\ out' = Rendered("_construct_order_by", self, 0,
                       Str(_construct_order_by(
                               clists[Get(StatementOf(self), "ORDER_BY").n])))
    /\ UNCHANGED <<draftVars, coreVars, paramVars, pathVars>>

----------------------------------------------------------------------------
(* core_draft.py: Column, Table and Schema; names are texts of characters, *)
(* None is <<>>                                                           *)

\* utils.cat over texts
cat_str(strs, delim) == _cat(strs, delim)

\* str.lower on one character, and on a name
lower_char(ch) ==
    CASE ch = "D" -> "d" [] ch = "E" -> "e" [] ch = "I" -> "i"
      [] ch = "S" -> "s" [] OTHER -> ch

lower(name) == [i \in 1..Len(name) |-> lower_char(name[i])]

\* Column(name): a descriptor; table_name and schema_name are None
Column_init(name) == [name |-> name]

\* Column.__set_name__(owner, name) on the descriptor self
Column_set_name(self, name) ==
    IF self.name = <<>> THEN [self EXCEPT !.name = name] ELSE self

\* Column.get_path of a Column with the three names
Column_get_path(self) ==
    IF self.name = <<>> THEN Err("AttributeError")
    ELSE Str(cat_str(<<self.schema_name, self.table_name, self.name>>, <<".">>))

\* TableMeta.__new__ that takes the class name as it is written
TableMeta_new_keeps_case(name, base, attrs) ==
    [name |-> name,
     base |-> base,
     declared |-> attrs._table_name,
     _table_name |-> IF attrs._table_name = <<>> THEN name
                     ELSE attrs._table_name,
     _schema_name |-> attrs._schema_name,
     cols |-> attrs.cols]

\* TableMeta.__new__(cls, name, bases, attrs): the class made; base is the
\* class it derives from (0 for Table), cols the descriptors of its body,
\* declared the _table_name of attrs as it was passed
TableMeta_new(name, base, attrs) ==
    [name |-> name,
     base |-> base,
     declared |-> attrs._table_name,
     _table_name |-> IF attrs._table_name = <<>> THEN lower(name)
                     ELSE attrs._table_name,
     _schema_name |-> attrs._schema_name,
     cols |-> attrs.cols]

\* Table.get_sql_parts(indent) on the class cls
Table_path(cls) == cat_str(<<cls._schema_name, cls._table_name>>, <<".">>)

\* the descriptor an attribute of the class names: its own, or Table.ALL
Descriptor(cls, attr) ==
    IF attr = <<"A", "L", "L">> THEN 1
    ELSE IF \E i \in 1..Len(cls.cols) : cls.cols[i].attr = attr
    THEN cls.cols[CHOOSE i \in 1..Len(cls.cols) : cls.cols[i].attr = attr].ref
    ELSE 0

\* Column.__get__(None, objtype): Column(self.name, table_name=table_path)
Column_get(self, objtype) ==
    [name |-> self.name, table_name |-> Table_path(objtype), schema_name |-> <<>>]

\* class name(Table): with an optional _table_name and a body of Column
\* attributes, each made with or without a name (kept as given)
class_Table(name, _table_name, body) ==
    /\ tables' = Append(tables,
                   TableMeta_new(name, 0,
                       [_table_name |-> _table_name, _schema_name |-> <<>>,
                        cols |-> [i \in 1..Len(body) |->
                                    [attr |-> body[i].attr,
                                     given |-> body[i].name,
                                     ref |-> Len(columns) + i]]]))
    /\ columns' = columns \o
                    [i \in 1..Len(body) |->
                        Column_set_name(Column_init(body[i].name), body[i].attr)]
    /\ out' = Called("Table")
    /\ UNCHANGED <<draftVars, coreVars, paramVars, schemas, got>>

\* the proxy SchemaMeta.__new__ makes of a listed table: a class derived
\* from the original, made from a copy of its dict with _schema_name replaced
Proxy(name, schema_name, t) ==
    TableMeta_new(name \o <<"_">> \o tables[t].name, t,
                  [_table_name |-> tables[t]._table_name,
                   _schema_name |-> schema_name,
                   cols |-> tables[t].cols])

\* SchemaMeta.__new__ that sets the schema on the listed class itself
class_Schema_in_place(name, _schema_name, body) ==
    LET schema_name == IF _schema_name = <<>> THEN lower(name) ELSE _schema_name
    IN /\ tables' = [t \in 1..Len(tables) |->
                        IF \E i \in 1..Len(body) : body[i].tbl = t
                        THEN [tables[t] EXCEPT !._schema_name = schema_name]
                        ELSE tables[t]]
       /\ schemas' = Append(schemas,
                        [name |-> name,
                         declared |-> _schema_name,
                         _schema_name |-> schema_name,
                         attrs |-> [i \in 1..Len(body) |->
                                      [attr |-> body[i].attr,
                                       tbl |-> body[i].tbl]]])
       /\ columns' = columns
       /\ out' = Called("Schema")
       /\ UNCHANGED <<draftVars, coreVars, paramVars, got>>

\* class name(Schema): with an optional _schema_name and a body of attributes
\* holding Table classes
class_Schema(name, _schema_name, body) ==
    LET schema_name == IF _schema_name = <<>> THEN lower(name) ELSE _schema_name
    IN /\ tables' = tables \o [i \in 1..Len(body) |->
                                  Proxy(name, schema_name, body[i].tbl)]
       /\ schemas' = Append(schemas,
                        [name |-> name,
                         declared |-> _schema_name,
                         _schema_name |-> schema_name,
                         attrs |-> [i \in 1..Len(body) |->
                                      [attr |-> body[i].attr,
                                       tbl |-> Len(tables) + i]]])
       /\ columns' = [c \in 1..Len(columns) |->
                        LET held == {x \in (1..Len(body)) \X (1..Len(columns)) :
                                       /\ x[2] <= Len(tables[body[x[1]].tbl].cols)
                                       /\ tables[body[x[1]].tbl].cols[x[2]].ref = c}
                        IN IF held = {} THEN columns[c]
                           ELSE LET x == CHOOSE x \in held : TRUE
                                IN Column_set_name(
                                       columns[c],
                                       tables[body[x[1]].tbl].cols[x[2]].attr)]
       /\ out' = Called("Schema")
       /\ UNCHANGED <<draftVars, coreVars, paramVars, got>>

\* T.get_sql_parts(indent) on a Table class
call_Table_get_sql_parts(t, indent) ==
    /\ t \in 1..Len(tables)
    /\ out' = Rendered("Table.get_sql_parts", t, indent, Str(Table_path(tables[t])))
    /\ UNCHANGED <<draftVars, coreVars, paramVars, pathVars>>

\* T.attr.get_sql_parts(indent): the attribute read, then the render
call_Column_get_sql_parts(t, attr, indent) ==
    /\ t \in 1..Len(tables)
    /\ Descriptor(tables[t], attr) # 0
    /\ LET c == Column_get(columns[Descriptor(tables[t], attr)], tables[t])
       IN /\ got' = [tbl |-> t, attr |-> attr, name |-> c.name,
                     table_name |-> c.table_name, schema_name |-> c.schema_name]
          /\ out' = Rendered("Column.get_sql_parts", t, indent, Column_get_path(c))
    /\ UNCHANGED <<draftVars, coreVars, paramVars, tables, schemas, columns>>

----------------------------------------------------------------------------
(* Inputs *)

Tables == {TableV("", "t"), TableV("company", "employees")}

ColChoices == {<<Lit(<<"*">>)>>, <<Lit(<<"a">>), Lit(<<"b">>)>>}

SelectObjs == {o \in 1..Len(objs) : objs[o].kind = "SELECT"}

WithObjs == {o \in 1..Len(objs) : objs[o].kind = "WITH"}

\* operands of a condition: literal text, a parameter, an earlier condition,
\* a sub-select
LeftOperands == {Lit(<<"1">>)} \cup {CritRef(c) : c \in 1..Len(crits)}

RightOperands ==
    {Lit(<<"1">>)} \cup {ObjRef(o) : o \in SelectObjs}

\* the keys a caller assigns directly; each with the value Param(name=key)
SettableKeys ==
    {"WITH", "FROM", "WHERE", "GROUP_BY", "HAVING", "WINDOW",
     "SET_OPERATIONS", "ORDER_BY", "LIMIT", "OFFSET", "FETCH"}

----------------------------------------------------------------------------
(* Specifications *)

\* one statement, its keys assigned directly in every order
NextOrder ==
    \/ /\ stmts = <<>>
       /\ \E cols \in ColChoices : SELECT_init(None, "ALL", cols)
    \/ \E key \in SettableKeys :
          /\ stmts # <<>>
          /\ Has(stmts[1], key) \/ Len(stmts[1]) < OrderKeys + 2
          /\ setitem(1, key, ParamV(<<key>>))
    \/ \E self \in Stages, indent \in {NoIndent, MaxIndent} : call_get_sql(self, indent)

SpecOrder == Init /\ [][NextOrder]_vars

\* the fluent chain of core_draft with conditions and sub-selects
DraftStep(cap) ==
    \/ /\ Len(objs) + Len(crits) < cap
       /\ \/ SELECT_init(None, "ALL", <<Lit(<<"a">>)>>)
          \/ \E prev \in Stages : FROM_init(prev, TableV("", "t"))
          \/ \E prev \in Stages, c \in 1..Len(crits) : WHERE_init(prev, c)
    \/ /\ Len(objs) + Len(crits) < cap
       /\ \E ri \in RightOperands : Criterion_init(Lit(<<"1">>), <<"=">>, ri, FALSE)
    \/ \E a, b \in 1..Len(crits) : AND(a, b)
    \/ \E self \in Stages, indent \in {NoIndent, MaxIndent} : call_get_sql(self, indent)

NextDraft == DraftStep(DraftHeap)

SpecDraft == Init /\ [][NextDraft]_vars

\* the statements a caller hands to SQLQuery; <<>> is statement=None
InputStatements ==
    { <<>>,
      << Entry("type", CEnum("SELECT")), Entry("SELECT", CStr(<<"*">>)),
         Entry("FROM", CStr(<<"t">>)) >>,
      << Entry("type", CEnum("INSERT")), Entry("WITH", CWith(2)) >>,
      << Entry("type", CEnum("SELECT")), Entry("WITH", CWith(2)) >> }

\* the selects handed to UNION / INTERSECT / EXCEPT
Selects == {<<"q1">>, <<"q2">>}

PassedModes == {"none", "ALL", "DISTINCT"}

\* every stage of select.py and __init__.py, from every stage made so far
NextBuilder ==
    /\ Len(cstages) < BuilderStages
    /\ \/ \E statement \in InputStatements : SQLQuery_init(statement)
       \/ \E p \in 1..Len(cstages) :
            \/ select_WITH(p, CWith(2))
            \/ select_SELECT(p, CStr(<<"a">>))
            \/ select_FROM(p, CStr(<<"t">>))
            \/ select_WHERE(p, CStr(<<"c">>))
            \/ select_GROUP_BY(p, CStr(<<"g">>))
            \/ select_HAVING(p, CStr(<<"h">>))
            \/ select_WINDOW(p, <<SetOpElem("", "", <<"w">>)>>)
            \/ select_ORDER_BY(p, <<OrderBy(<<"o">>, <<>>, <<>>)>>)
            \/ select_LIMIT(p, CStr(<<"1">>))
            \/ select_OFFSET(p, CStr(<<"2">>))
            \/ select_UNION(p, <<"q1">>, "none")
            \/ select_INTERSECT(p, <<"q1">>, "ALL")
            \/ select_EXCEPT(p, <<"q1">>, "DISTINCT")

SpecBuilder == Init /\ [][NextBuilder]_vars

\* chains of set operations on one SELECT
NextSetOps ==
    /\ Len(cstages) < SetOpStages
    /\ \/ cstages = <<>> /\ SQLQuery_init(<<>>)
       \/ Len(cstages) = 1 /\ select_SELECT(1, CStr(<<"a">>))
       \/ \E p \in 1..Len(cstages), s \in Selects, passed \in PassedModes :
            \/ select_UNION(p, s, passed)
            \/ select_INTERSECT(p, s, passed)
            \/ select_EXCEPT(p, s, passed)

SpecSetOps == Init /\ [][NextSetOps]_vars

\* renders of both renderers; a run uses the classes of core_draft or the
\* statements of core, which share no object
NextRender ==
    \/ /\ cstages = <<>>
       /\ \/ DraftStep(RenderHeap)
          \/ \E c \in 1..Len(crits), indent \in {0, MaxIndent} :
                call_get_sql_parts(CritRef(c), indent)
          \/ \E o \in 1..Len(objs), indent \in {0, MaxIndent} :
                call_get_sql_parts(ObjRef(o), indent)
    \/ /\ objs = <<>> /\ crits = <<>>
       /\ \/ /\ Len(cstages) < RenderStages
             /\ \/ \E statement \in InputStatements : SQLQuery_init(statement)
                \/ \E p \in 1..Len(cstages), w \in 1..Len(WithPool) :
                      select_WITH(p, CWith(w))
                \/ \E p \in 1..Len(cstages) : select_SELECT(p, CStr(<<"a">>))
          \/ \E self \in 1..Len(cstages), indent \in {NoIndent, MaxIndent} :
                construct_sql(self, indent)

SpecRender == Init /\ [][NextRender]_vars

\* the column lists handed to SELECT: none, literals, a parameter, a sub-select
SelectCols ==
    {<<>>, <<Lit(<<"*">>)>>, <<Lit(<<"a">>), ParamV(<<"p">>)>>}
        \cup {<<ObjRef(o), Lit(<<"b">>)>> : o \in SelectObjs}
        \cup {<<Lit(<<"a">>), ObjRef(o)>> : o \in SelectObjs}

\* SELECT objects of both quantifiers and their get_sql_parts
NextSelect ==
    \/ /\ Len(objs) < SelectHeap
       /\ \E select_mode \in {"ALL", "DISTINCT"}, cols \in SelectCols :
             SELECT_init(None, select_mode, cols)
    \/ \E o \in 1..Len(objs), indent \in {0, MaxIndent} :
          call_get_sql_parts(ObjRef(o), indent)

SpecSelect == Init /\ [][NextSelect]_vars

\* the operands and negation handed to Criterion: literals, parameters, a
\* sub-select, the condition made last
CritChoices ==
    { [le |-> ParamV(<<"p">>), ri |-> ParamV(<<>>), neg |-> FALSE],
      [le |-> Lit(<<"a">>), ri |-> Lit(<<"1">>), neg |-> TRUE] }
        \cup {[le |-> Lit(<<"a">>), ri |-> ObjRef(o), neg |-> FALSE] : o \in SelectObjs}
        \cup {[le |-> CritRef(c), ri |-> Lit(<<"1">>), neg |-> FALSE] :
                 c \in {Len(crits)} \ {0}}
        \cup {[le |-> Lit(<<"a">>), ri |-> CritRef(c), neg |-> FALSE] :
                 c \in {Len(crits)} \ {0}}

\* conditions, chained as they are made (a.AND(b), a.OR(b) with b the
\* condition made after a and not yet chained), and their get_sql_parts
NextCrit ==
    \/ /\ objs = <<>>
       /\ SELECT_init(None, "ALL", <<Lit(<<"a">>)>>)
    \/ /\ Len(crits) < CritHeap
       /\ \E x \in CritChoices : Criterion_init(x.le, <<"=">>, x.ri, x.neg)
    \/ \E a, b \in 1..Len(crits) :
          /\ b = a + 1 /\ ~crits[b].hasPrev
          /\ AND(a, b) \/ OR(a, b)
    \/ \E c \in 1..Len(crits), indent \in {0, MaxIndent} :
          call_get_sql_parts(CritRef(c), indent)

SpecCrit == Init /\ [][NextCrit]_vars

\* the positional markers a session is configured with
Markers == {<<"%s">>, <<"?">>}

\* parameters: the session is configured, then Param objects are made and
\* their placeholder read and rendered
NextParam ==
    \/ /\ params = <<>>
       /\ \E cls \in {"core", "core_draft"}, s \in Markers : set_param_str(cls, s)
    \/ /\ Len(params) < ParamHeap
       /\ \E cls \in {"core", "core_draft"}, name \in {<<>>, <<"x">>} :
             Param_init(cls, name)
    \/ \E p \in 1..Len(params) :
          \/ read_placeholder(p)
          \/ \E indent \in {0, MaxIndent} : Param_call_get_sql_parts(p, indent)
          \/ _get_placeholder(p)
    \/ _get_placeholder_value(Lit(<<"ALL">>))

SpecParam == Init /\ [][NextParam]_vars

\* the ORDER BY lists handed to ORDER_BY: one entry of every shape, and two
\* entries
OrderByLists ==
    {<<OrderBy(<<"col">>, o, n)>> :
        o \in {<<>>, <<"ASC">>, <<"DESC">>, <<"<">>}, n \in {<<>>, <<"FIRST">>, <<"LAST">>}}
    \cup {<<OrderBy(<<"a">>, <<"DESC">>, <<>>), OrderBy(<<"b">>, o, <<"FIRST">>)>> :
             o \in {<<>>, <<"ASC">>}}

\* ORDER_BY stages on one SELECT and the rendering of their lists
NextOrderBy ==
    \/ cstages = <<>> /\ SQLQuery_init(<<>>)
    \/ Len(cstages) = 1 /\ select_SELECT(1, CStr(<<"a">>))
    \/ /\ Len(cstages) < OrderByStages
       /\ \E p \in 1..Len(cstages), order_by \in OrderByLists :
             select_ORDER_BY(p, order_by)
    \/ \E self \in 1..Len(cstages) : call_construct_order_by(self)

SpecOrderBy == Init /\ [][NextOrderBy]_vars

\* the Table classes declared: class name, declared _table_name (or none)
\* and body
TableChoices ==
    {[name |-> <<"E">>, _table_name |-> <<"e", "m", "p">>,
      body |-> <<[attr |-> <<"p", "k">>, name |-> <<>>],
                 [attr |-> <<"i", "d">>, name |-> <<"n">>]>>],
     [name |-> <<"D", "_", "I">>, _table_name |-> <<>>,
      body |-> <<[attr |-> <<"i", "d">>, name |-> <<>>]>>],
     [name |-> <<"E">>, _table_name |-> <<>>, body |-> <<>>]}

\* the Schema classes declared: class name and declared _schema_name (or none)
SchemaChoices ==
    {[name |-> <<"S">>, _schema_name |-> <<>>],
     [name |-> <<"S">>, _schema_name |-> <<"c", "o">>]}

ColumnAttrs == {<<"A", "L", "L">>, <<"i", "d">>, <<"p", "k">>}

\* Table classes, Schema classes listing them, and the paths they render
NextPath ==
    \/ /\ Len(tables) < PathClasses
       /\ \E x \in TableChoices : class_Table(x.name, x._table_name, x.body)
    \/ /\ Len(tables) < PathClasses
       /\ \E x \in SchemaChoices, t \in 1..Len(tables) :
             class_Schema(x.name, x._schema_name,
                          <<[attr |-> <<"e">>, tbl |-> t]>>)
    \/ \E t \in 1..Len(tables), indent \in {0, MaxIndent} :
          call_Table_get_sql_parts(t, indent)
    \/ \E t \in 1..Len(tables), attr \in ColumnAttrs :
          call_Column_get_sql_parts(t, attr, 0)

SpecPath == Init /\ [][NextPath]_vars

\* the conditions chained freely: one of a single line, one of several
ChainChoices ==
    { [le |-> Lit(<<"a">>), ri |-> Lit(<<"1">>)] }
        \cup {[le |-> ObjRef(o), ri |-> Lit(<<"3">>)] : o \in SelectObjs}

\* conditions chained in any way a caller can: x.AND(c), x.OR(c) for every x
\* and c made so far, x.AND(x) and a second chaining of c included
NextChain ==
    \/ /\ objs = <<>>
       /\ SELECT_init(None, "ALL", <<Lit(<<"a">>)>>)
    \/ /\ Len(crits) < ChainHeap
       /\ \E x \in ChainChoices : Criterion_init(x.le, <<"=">>, x.ri, FALSE)
    \/ \E self, criterion \in 1..Len(crits) :
          AND(self, criterion) \/ OR(self, criterion)
    \/ \E c \in 1..Len(crits), indent \in {0, MaxIndent} :
          call_get_sql_parts(CritRef(c), indent)

SpecChain == Init /\ [][NextChain]_vars

\* WITH stages and the WITH clauses rendered from their statements
NextWith ==
    \/ /\ Len(cstages) < WithStages
       /\ \/ \E statement \in InputStatements : SQLQuery_init(statement)
          \/ \E p \in 1..Len(cstages), w \in 1..Len(WithPool) :
                select_WITH(p, CWith(w))
    \/ \E self \in 1..Len(cstages), indent \in 0..MaxIndent :
          call_construct_with_clause(self, indent)

SpecWith == Init /\ [][NextWith]_vars

\* core_draft parameters in a session that changes Param.Config.param_str at
\* any time, Param objects made and read before the change included
NextReconfig ==
    \/ \E s \in Markers : set_param_str("core_draft", s)
    \/ /\ Len(params) < ParamHeap
       /\ \E name \in {<<>>, <<"x">>} : Param_init("core_draft", name)
    \/ \E p \in 1..Len(params) :
          \/ read_placeholder(p)
          \/ \E indent \in {0, MaxIndent} : Param_call_get_sql_parts(p, indent)

SpecReconfig == Init /\ [][NextReconfig]_vars

Next ==
    NextOrder \/ NextDraft \/ NextBuilder \/ NextSetOps \/ NextRender \/ NextSelect
        \/ NextCrit \/ NextParam \/ NextOrderBy
    \/ NextPath \/ NextChain \/ NextWith \/ NextReconfig

Spec == Init /\ [][Next]_vars

----------------------------------------------------------------------------
(* Properties *)

StatementOfObj(o) == stmts[objs[o].st]

\* the same items, assigned in the order Statement_SELECT declares the keys
InDeclaredOrder(statement) ==
    LET present == SelectSeq(<<"type">> \o Statement_SELECT,
                             LAMBDA key : Has(statement, key))
    IN [i \in 1..Len(present) |-> Entry(present[i], Get(statement, present[i]))]

\* C1: a statement renders the same text, for indent unset and for every
\* integer indent, as the statement that holds the same clause values with
\* the keys assigned in declaration order; so any two statements with the
\* same clause values render identically whatever the order of assignment.
C1_ClauseOrderInvariance ==
    \A s \in 1..Len(stmts), indent \in Indents :
        get_sql(stmts[s], indent) = get_sql(InDeclaredOrder(stmts[s]), indent)

C1_Witness ==
    /\ out.op = "get_sql" /\ out.t = "text"
    /\ Len(stmts[1]) >= 5
    /\ stmts[1] # InDeclaredOrder(stmts[1])
    /\ Items(stmts[1]) = Items(InDeclaredOrder(stmts[1]))

\* C2: get_sql renders every present key of the twelve clause keys, once, at
\* its canonical position (HAVING between GROUP_BY and WINDOW), and nothing
\* for an absent key.
C2_EveryPresentClauseRendered ==
    \A s \in 1..Len(stmts), indent \in 0..MaxIndent :
        LET res == get_sql_loop(stmts[s], Statement_SELECT, 1, <<>>, indent)
        IN get_sql(stmts[s], indent) =
              (IF IsErr(res) THEN Raised(res.v[1]) ELSE Text(join("\n", res.v)))

NoDoubledSpace(v) == \A j \in 1..(Len(v) - 1) : ~(v[j] = " " /\ v[j + 1] = " ")

\* C3: with indent unset the text holds no indentation and no doubled space
\* (its lines are joined by one space each); with an integer indent, 0
\* included, the lines are joined by newline.
C3_SingleLineMode ==
    \A s \in Stages :
        LET single == get_sql(StatementOfObj(s), NoIndent)
        IN single.t = "text" =>
              /\ NoDoubledSpace(single.v)
              /\ single.v # <<>> => single.v[1] # " "
              /\ \A j \in 1..Len(single.v) : single.v[j] # "\n"

NewlinesToSpaces(v) == [j \in 1..Len(v) |-> IF v[j] = "\n" THEN " " ELSE v[j]]

Tokens(v) == SelectSeq(v, LAMBDA a : a # " " /\ a # "\n")

\* C4: get_sql() and get_sql(0) differ only in the line-joining character:
\* get_sql(0) with every newline replaced by a space is get_sql(), and the
\* tokens are the same (both raise the same exception when one does).
C4_ModesFormatEquivalent ==
    \A s \in Stages :
        LET single == get_sql(StatementOfObj(s), NoIndent)
            multi == get_sql(StatementOfObj(s), 0)
        IN /\ single.t = multi.t
           /\ single.t = "text" =>
                 /\ single.v = NewlinesToSpaces(multi.v)
                 /\ Tokens(single.v) = Tokens(multi.v)
           /\ single.t = "err" => single.v = multi.v

C4_Witness ==
    \E s \in Stages :
        LET multi == get_sql(StatementOfObj(s), 0)
        IN /\ multi.t = "text"
           /\ Has(StatementOfObj(s), "WHERE")
           /\ \E j \in 1..Len(multi.v) : multi.v[j] = "("
           /\ Len(SelectSeq(multi.v, LAMBDA a : a = "\n")) >= 6

IsRender(o) ==
    o.op \in {"get_sql", "get_sql_parts", "Criterion.get_sql_parts", "construct_sql"}

ResultOf(o) == [t |-> o.t, v |-> o.v]

C6_RenderLeavesInput ==
    [][IsRender(out') =>
         UNCHANGED <<crits, objs, stmts, param_str, cstages, cstmts, clists>>]_vars

C6_Witness ==
    /\ out.op = "construct_sql" /\ out.t = "str"
    /\ Has(StatementOf(out.who), "WITH")
    /\ Get(StatementOf(out.who), "WITH") = CWith(3)
    /\ \E j \in 1..Len(out.v[1]) : out.v[1][j] = "RECURSIVE"

\* a statement value without one key (and without the type tag)
OtherClauses(value, key) ==
    {value[i] : i \in {j \in 1..Len(value) : value[j].key \notin {key, "type"}}}

\* C7: a stage call leaves the statement of the stage it is called on
\* unchanged, and the new stage's statement equals it except for the one
\* clause key the stage sets.
C7_StagePreservesOtherClauses ==
    \A g \in 1..Len(cstages) :
        /\ DeepVal(StatementOf(g), clists) = hist[g].snap
        /\ hist[g].parent # 0 =>
              OtherClauses(hist[g].snap, hist[g].key)
                  = OtherClauses(hist[hist[g].parent].snap, hist[g].key)

\* C8: in the core_draft chain a FROM or WHERE call does not change what any
\* stage made before it renders.
C8_StageCallLeavesPrefix ==
    [][out'.op \in {"FROM", "WHERE"} =>
         \A s \in Stages :
            (get_sql(StatementOfObj(s), NoIndent))' = get_sql(StatementOfObj(s), NoIndent)]_vars

SetOpsOf(g) ==
    IF Has(StatementOf(g), "SET_OPERATIONS")
    THEN clists[Get(StatementOf(g), "SET_OPERATIONS").n]
    ELSE <<>>

\* C9: every SET_OPERATIONS entry carries the operation of the stage that
\* appended it: UNION, INTERSECT or EXCEPT.
C9_EntryCarriesInvokedOp ==
    \A g \in 1..Len(cstages) :
        \A j \in 1..Len(SetOpsOf(g)) :
            j <= Len(hist[g].calls) => SetOpsOf(g)[j].op = hist[g].calls[j].op

\* C10: the SET_OPERATIONS list of every stage holds one entry per set
\* operation call of its chain, in call order, each with the select passed
\* and the mode passed, DISTINCT when none was; later calls, on this chain or
\* on another one derived from the same prefix, never change it.
C10_SetOperationsInCallOrder ==
    \A g \in 1..Len(cstages) :
        /\ Len(SetOpsOf(g)) = Len(hist[g].calls)
        /\ \A j \in 1..Len(SetOpsOf(g)) :
              /\ SetOpsOf(g)[j].select = hist[g].calls[j].select
              /\ SetOpsOf(g)[j].mode =
                    (IF hist[g].calls[j].mode = "none" THEN "DISTINCT"
                     ELSE hist[g].calls[j].mode)

C10_Witness ==
    \E g, h \in 1..Len(cstages) :
        /\ Len(SetOpsOf(g)) = 2
        /\ hist[g].calls[1].select # hist[g].calls[2].select
        /\ hist[g].calls[1].mode = "ALL" /\ hist[g].calls[2].mode = "none"
        /\ hist[g].parent = h /\ Len(SetOpsOf(h)) = 1

\* C11: construct_sql_str on a statement whose type is not SELECT (INSERT,
\* UPDATE, DELETE) raises UnsupportedStatementError and returns no text.
C11_NonSelectRaises ==
    (out.op = "construct_sql"
        /\ Get(StatementOf(out.who), "type") # CEnum("SELECT"))
    => out.t = "err" /\ out.v = <<<<"UnsupportedStatementError">>>>

\* C12: rendering a SELECT statement that has no SELECT key raises
\* MissingClauseError; no text, partial or whole, is returned for it.
C12_MissingSelectRaises ==
    (out.op = "construct_sql"
        /\ Get(StatementOf(out.who), "type") = CEnum("SELECT")
        /\ ~Has(StatementOf(out.who), "SELECT"))
    => out.t = "err" /\ out.v = <<<<"MissingClauseError">>>>

\* C13: construct_sql_str, and so construct_sql, on a SELECT statement whose
\* only clause is the '*' projection returns exactly 'SELECT *'.
C13_EmptySelectRendersStar ==
    (out.op = "construct_sql"
        /\ StatementOf(out.who) = construct_empty_select_statement)
    => out.t = "str" /\ out.v = << <<"SELECT", " ", "*">> >>

\* the lines of one projected item: the literal itself, or what the item's
\* get_sql_parts returns
ItemLines(col, indent) ==
    IF col.k = "lit" THEN <<col.s>> ELSE get_sql_parts(col, indent, Fuel).v

\* the number of lines before the lines of item i (the SELECT line included)
RECURSIVE LinesBefore(_, _, _)
LinesBefore(cols, i, indent) ==
    IF i = 1 THEN 1
    ELSE LinesBefore(cols, i - 1, indent) + Len(ItemLines(cols[i - 1], indent))

\* C14: SELECT.get_sql_parts(indent) returns 'SELECT' (quantifier ALL) or
\* 'SELECT DISTINCT' first, then the lines of the items in the order given,
\* each line prefixed by indent spaces; the last line of every item but the
\* final one ends with a comma, and the final item has none.
C14_SelectParts ==
    (out.op = "get_sql_parts" /\ objs[out.who].kind = "SELECT" /\ out.t = "list") =>
        LET self == objs[out.who]
            n == Len(self.cols)
        IN /\ out.v[1] = (IF self.mode = "ALL" THEN <<"SELECT">>
                          ELSE <<"SELECT", " ", "DISTINCT">>)
           /\ Len(out.v) = LinesBefore(self.cols, n + 1, out.indent)
           /\ \A i \in 1..n :
                LET item == ItemLines(self.cols[i], out.indent)
                    before == LinesBefore(self.cols, i, out.indent)
                IN \A j \in 1..Len(item) :
                      out.v[before + j] =
                          Spaces(out.indent) \o item[j]
                              \o (IF j = Len(item) /\ i < n THEN <<",">> ELSE <<>>)

C14_Witness ==
    /\ out.op = "get_sql_parts" /\ out.t = "list" /\ out.indent = MaxIndent
    /\ objs[out.who].kind = "SELECT" /\ objs[out.who].mode = "DISTINCT"
    /\ Len(objs[out.who].cols) = 2
    /\ objs[out.who].cols[1].k = "obj"
    /\ Len(out.v) > 3

\* the text of an operand that is literal text or a parameter
OperandText(x) ==
    IF x.k = "lit" THEN x.s
    ELSE IF x.s # <<>> THEN <<":">> \o x.s ELSE param_str

IsPlain(x) == x.k \in {"lit", "param"}

\* C15: a condition whose operands both render to one line (literal text,
\* parameter), with no predecessor and no negation, renders for every indent
\* to the one string '<left> <op> <right>': one space on each side of the
\* operator, no parentheses.
C15_SingleLineCriterion ==
    (out.op = "Criterion.get_sql_parts"
        /\ IsPlain(crits[out.who].le) /\ IsPlain(crits[out.who].ri)
        /\ ~crits[out.who].hasPrev /\ ~crits[out.who].neg)
    => /\ out.t = "str"
       /\ out.v[1] = OperandText(crits[out.who].le) \o <<" ">> \o crits[out.who].op
                        \o <<" ">> \o OperandText(crits[out.who].ri)

C15_Witness ==
    /\ out.op = "Criterion.get_sql_parts" /\ out.indent = MaxIndent
    /\ crits[out.who].le.k = "param" /\ crits[out.who].ri.k = "param"
    /\ ~crits[out.who].hasPrev /\ ~crits[out.who].neg
    /\ out.v = << <<":", "p", " ", "=", " ", "%s">> >>

\* the conditions of a chain, first to last, have plain operands and no negation
RECURSIVE PlainChain(_)
PlainChain(c) ==
    /\ IsPlain(crits[c].le) /\ IsPlain(crits[c].ri) /\ ~crits[c].neg
    /\ crits[c].hasPrev => PlainChain(crits[c].prevCr)

\* 'A AND B OR C': every condition of the chain, each after its connector
RECURSIVE ChainText(_)
ChainText(c) ==
    LET own == OperandText(crits[c].le) \o <<" ">> \o crits[c].op
                  \o <<" ">> \o OperandText(crits[c].ri)
    IN IF crits[c].hasPrev
       THEN ChainText(crits[c].prevCr) \o <<" ">> \o crits[c].prevOp \o <<" ">> \o own
       ELSE own

\* C16: a chain built by A.AND(B).OR(C) from conditions with single-line
\* operands renders at top level as 'A AND B OR C': every condition of the
\* chain, in construction order, each after the first preceded by its
\* connector, no parentheses.
C16_ChainFlattened ==
    (out.op = "Criterion.get_sql_parts" /\ PlainChain(out.who))
    => /\ out.t \in {"str", "list"}
       /\ join(" ", out.v) = ChainText(out.who)

\* C17: a condition used as the left or right operand of another condition
\* is rendered in one pair of parentheses: '(...)' when it renders to one
\* line, a '(' line, the body lines indented, and a ')' line when it renders
\* to several; the other operand, literal text or a parameter, is not wrapped.
C17_OperandParenthesised ==
    (out.op = "Criterion.get_sql_parts" /\ out.t # "err") =>
        LET self == crits[out.who]
            inner == get_sql_parts(IF self.le.k = "crit" THEN self.le ELSE self.ri,
                                   out.indent, Fuel)
            op == <<" ">> \o self.op \o <<" ">>
            \* the lines of the predecessor come first, then the connector
            k == IF out.t = "list"
                 THEN Len(get_sql_parts(CritRef(self.prevCr), out.indent, Fuel).v)
                 ELSE 0
            first == IF out.t = "list" THEN self.prevOp \o <<" ">> ELSE <<>>
            n == Len(inner.v)
        IN /\ (self.le.k = "crit" /\ IsPlain(self.ri) /\ inner.t = "str") =>
                 out.v = << <<"(">> \o inner.v[1] \o <<")">> \o op \o OperandText(self.ri) >>
           /\ (IsPlain(self.le) /\ self.ri.k = "crit" /\ inner.t = "str") =>
                 out.v = << OperandText(self.le) \o op \o <<"(">> \o inner.v[1] \o <<")">> >>
           /\ (self.le.k = "crit" /\ IsPlain(self.ri) /\ inner.t = "list") =>
                 /\ Len(out.v) = k + n + 2
                 /\ out.v[k + 1] = first \o <<"(">>
                 /\ \A j \in 1..n : out.v[k + 1 + j] = Spaces(out.indent) \o inner.v[j]
                 /\ out.v[k + n + 2] = <<")">> \o op \o OperandText(self.ri)
           /\ (IsPlain(self.le) /\ self.ri.k = "crit" /\ inner.t = "list") =>
                 /\ Len(out.v) = k + n + 3
                 /\ out.v[k + 1] = first \o OperandText(self.le) \o op
                 /\ out.v[k + 2] = <<"(">>
                 /\ \A j \in 1..n : out.v[k + 2 + j] = Spaces(out.indent) \o inner.v[j]
                 /\ out.v[k + n + 3] = <<")">>

C17_Witness ==
    /\ out.op = "Criterion.get_sql_parts" /\ out.t = "list" /\ out.indent = MaxIndent
    /\ crits[out.who].le.k = "crit"
    /\ get_sql_parts(crits[out.who].le, out.indent, Fuel).t = "list"
    /\ \E j \in 1..Len(out.v) : out.v[j] = <<"AND", " ", "(">>

\* ':' and the name, or the positional marker of the parameter's module
PlaceholderText(p) ==
    IF params[p].name # <<>> THEN <<":">> \o params[p].name
    ELSE IF params[p].cls = "core" THEN core_param_str ELSE param_str

\* C18: a parameter's placeholder is ':' followed by its name when it has a
\* name and the positional marker when it has none; Param.placeholder,
\* Param.get_sql_parts and _get_placeholder all return that text, and
\* _get_placeholder returns a value that is not a parameter unchanged.
C18_PlaceholderText ==
    /\ \A p \in 1..Len(params) : placeholder(p) = PlaceholderText(p)
    /\ out.op \in {"placeholder", "Param.get_sql_parts"} =>
          out.t = "str" /\ out.v = <<PlaceholderText(out.who)>>
    /\ out.op = "_get_placeholder" =>
          out.t = "str"
          /\ out.v = (IF out.who = 0 THEN << <<"ALL">> >>
                      ELSE <<PlaceholderText(out.who)>>)

C18_Witness ==
    /\ out.op = "_get_placeholder" /\ out.who # 0
    /\ params[out.who].name = <<>> /\ out.v = << <<"?">> >>
    /\ \E p \in 1..Len(params) :
          /\ params[p].cls = "core_draft" /\ params[p].cached
          /\ params[p].name = <<"x">>

\* where token x stands in the tokens t
TokenAt(t, x) == CHOOSE i \in 1..Len(t) : t[i] = x

\* C19: the ORDER BY renderer keeps the token order of
\* 'ORDER BY col DESC NULLS LAST': an entry with a column, an order and a
\* nulls placement renders the column, then the direction, then NULLS and
\* the placement.
C19_OrderByTokenOrder ==
    (out.op = "_construct_order_by") =>
        LET orders == clists[Get(StatementOf(out.who), "ORDER_BY").n]
            t == Tokens(out.v[1])
        IN (Len(orders) = 1 /\ orders[1].order \in {<<"ASC">>, <<"DESC">>}
               /\ orders[1].nulls # <<>>)
           => /\ TokenAt(t, "col") < TokenAt(t, orders[1].order[1])
              /\ TokenAt(t, orders[1].order[1]) < TokenAt(t, "NULLS")
              /\ TokenAt(t, "NULLS") + 1 = TokenAt(t, orders[1].nulls[1])

\* the lines of a text
RECURSIVE SplitLines(_)
SplitLines(v) ==
    IF \A i \in 1..Len(v) : v[i] # "\n" THEN <<v>>
    ELSE LET i == CHOOSE k \in 1..Len(v) :
                     v[k] = "\n" /\ \A j \in 1..k - 1 : v[j] # "\n"
         IN <<SubSeq(v, 1, i - 1)>> \o SplitLines(SubSeq(v, i + 1, Len(v)))

\* the number of spaces a line starts with
Leading(l) ==
    IF \A i \in 1..Len(l) : l[i] = " " THEN Len(l)
    ELSE (CHOOSE k \in 1..Len(l) :
              l[k] # " " /\ \A j \in 1..k - 1 : l[j] = " ") - 1

\* a line that opens a CTE body, and a line that closes one
IsHeader(l) == l # <<>> /\ l[Len(l)] = "("
IsCloser(l) == Leading(l) < Len(l) /\ l[Leading(l) + 1] = ")"

\* the bodies opened and not yet closed within lines i+1..k
Balance(lines, i, k) ==
    Cardinality({h \in i + 1..k : IsHeader(lines[h])})
        - Cardinality({c \in i + 1..k : IsCloser(lines[c])})

\* the lines that close the body opened by line i
ClosersOf(lines, i) ==
    {j \in i + 1..Len(lines) :
        /\ IsCloser(lines[j])
        /\ Balance(lines, i, j) = 0 - 1
        /\ \A k \in i + 1..j - 1 : Balance(lines, i, k) >= 0}

\* C20: in multi-line mode with step n > 0, every line of the body of a CTE
\* whose expression is a nested SELECT statement is indented exactly n spaces
\* deeper than its '<alias> AS (' header line, the closing ')' is at the
\* header's indentation, and the same holds for a body nested in a body.
C20_BodyIndentedOneStep ==
    (out.op = "construct_sql" /\ out.t = "str" /\ out.indent > 0) =>
        LET lines == SplitLines(out.v[1])
        IN \A i \in 1..Len(lines) :
              IsHeader(lines[i]) =>
                 /\ ClosersOf(lines, i) # {}
                 /\ \A j \in ClosersOf(lines, i) :
                       /\ Leading(lines[j]) = Leading(lines[i])
                       /\ \A k \in i + 1..j - 1 :
                             IF \/ Balance(lines, i, k - 1) = 0
                                \/ IsCloser(lines[k]) /\ Balance(lines, i, k) = 0
                             THEN Leading(lines[k]) = Leading(lines[i]) + out.indent
                             ELSE Leading(lines[k]) > Leading(lines[i]) + out.indent

\* the class a Table class was first declared as: itself, or the class its
\* proxy was made of
RECURSIVE Origin(_)
Origin(t) == IF tables[t].base = 0 THEN t ELSE Origin(tables[t].base)

\* the schemas that hold the class as an attribute
SchemasOf(t) ==
    {s \in 1..Len(schemas) :
        \E i \in 1..Len(schemas[s].attrs) : schemas[s].attrs[i].tbl = t}

\* the name a class was declared with, or its lower-cased class name
NameOf(x) == IF x.declared # <<>> THEN x.declared ELSE lower(x.name)

\* the dotted path of a Table class
PathOf(t) ==
    IF SchemasOf(t) = {} THEN NameOf(tables[Origin(t)])
    ELSE NameOf(schemas[CHOOSE s \in SchemasOf(t) : TRUE])
            \o <<".">> \o NameOf(tables[Origin(t)])

\* the name of the column an attribute of a class holds
ColumnNameOf(t, attr) ==
    IF attr = <<"A", "L", "L">> THEN <<"*">>
    ELSE LET col == tables[t].cols[CHOOSE i \in 1..Len(tables[t].cols) :
                                      tables[t].cols[i].attr = attr]
         IN IF col.given # <<>> THEN col.given ELSE attr

C28_SchemaLeavesTable ==
    /\ (out.op = "Table.get_sql_parts" /\ tables[out.who].base = 0) =>
          out.v[1] = NameOf(tables[out.who])
    /\ (out.op = "Column.get_sql_parts" /\ tables[out.who].base = 0) =>
          out.v[1] = NameOf(tables[out.who]) \o <<".">>
                        \o ColumnNameOf(got.tbl, got.attr)
    /\ \A s \in 1..Len(schemas) : \A i \in 1..Len(schemas[s].attrs) :
          LET t == schemas[s].attrs[i].tbl
          IN /\ (out.op = "Table.get_sql_parts" /\ out.who = t) =>
                   SubSeq(out.v[1], 1, Len(schemas[s]._schema_name) + 1)
                      = schemas[s]._schema_name \o <<".">>
             /\ (out.op = "Column.get_sql_parts" /\ out.who = t) =>
                   SubSeq(out.v[1], 1, Len(schemas[s]._schema_name) + 1)
                      = schemas[s]._schema_name \o <<".">>

\* the table rendered is listed by two schemas
C28_Witness ==
    /\ out.op = "Column.get_sql_parts"
    /\ tables[out.who].base = 0
    /\ Cardinality({t \in 1..Len(tables) : tables[t].base = out.who}) = 2
    /\ Len(schemas) = 2

\* C22: condition nodes are never mutated after construction: x.AND(c) and
\* x.OR(c) change neither x nor c, and a predecessor link once established
\* is never replaced.
C22_ConditionsNeverMutated ==
    [][\A c \in 1..Len(crits) : crits'[c] = crits[c]]_vars

\* following the predecessor links from c ends within n steps
RECURSIVE EndsWithin(_, _)
EndsWithin(c, n) ==
    \/ ~crits[c].hasPrev
    \/ n > 0 /\ EndsWithin(crits[c].prevCr, n - 1)

\* C23: after any sequence of Criterion constructions and AND/OR calls,
\* calls on the receiver itself included, following the predecessor links
\* from any condition reaches a condition with no predecessor (the chain is
\* acyclic), and rendering a condition terminates.
C23_ChainAcyclic ==
    /\ \A c \in 1..Len(crits) : EndsWithin(c, Len(crits))
    /\ (out.op = "Criterion.get_sql_parts") =>
          ~(out.t = "err" /\ out.v = <<<<"RecursionError">>>>)

\* the lines the predecessor of a condition renders to
PrevLines(c, indent) == get_sql_parts(CritRef(crits[c].prevCr), indent, Fuel).v

\* C24: a negated condition renders with 'NOT ' prefixed to the first line of
\* its own text, when it renders to one line and when it renders to several;
\* when it has a predecessor too, the connector comes before the 'NOT '.
C24_NegationPrefixed ==
    (out.op = "Criterion.get_sql_parts" /\ crits[out.who].neg /\ out.t # "err") =>
        IF out.t = "str"
        THEN \E i \in 1..Len(out.v[1]) - 1 :
                /\ out.v[1][i] = "NOT" /\ out.v[1][i + 1] = " "
                /\ i = 1 \/ crits[out.who].hasPrev
        ELSE LET first == crits[out.who].prevOp \o <<" ", "NOT", " ">>
                 k == Len(PrevLines(out.who, out.indent))
             IN SubSeq(out.v[k + 1], 1, Len(first)) = first

\* the lines of a chain, first member to last: every member's own lines, those
\* of each member after the first starting with its connector
RECURSIVE ChainLines(_, _)
ChainLines(c, indent) ==
    LET r == get_sql_parts(CritRef(c), indent, Fuel)
    IN IF ~crits[c].hasPrev THEN r.v
       ELSE IF r.t = "str"
       THEN Append(ChainLines(crits[c].prevCr, indent),
                   crits[c].prevOp \o <<" ">> \o r.v[1])
       ELSE ChainLines(crits[c].prevCr, indent)
               \o SubSeq(r.v, Len(PrevLines(c, indent)) + 1, Len(r.v))

\* every member of the chain renders on its own
RECURSIVE ChainRenders(_, _)
ChainRenders(c, indent) ==
    /\ get_sql_parts(CritRef(c), indent, Fuel).t # "err"
    /\ crits[c].hasPrev => ChainRenders(crits[c].prevCr, indent)

\* C25: when a condition that has a predecessor renders to several lines, the
\* lines of the predecessor, itself rendered with its own predecessor chain,
\* come first, in chain-construction order, then this condition's own lines,
\* the first of them starting with the connector and one space; no line of
\* the predecessor is lost or duplicated.
C25_PredecessorLinesFirst ==
    (out.op = "Criterion.get_sql_parts" /\ out.t = "list" /\ crits[out.who].hasPrev
        /\ ChainRenders(out.who, out.indent)) =>
        LET first == crits[out.who].prevOp \o <<" ">>
            k == Len(PrevLines(out.who, out.indent))
        IN /\ out.v = ChainLines(out.who, out.indent)
           /\ SubSeq(out.v[k + 1], 1, Len(first)) = first

\* C29: Criterion.get_sql_parts returns a result and does not raise for every
\* Criterion whose operator and operands are populated, with or without a
\* predecessor, rendering to one line or to several.
C29_RenderDoesNotRaise ==
    (out.op = "Criterion.get_sql_parts") => out.t # "err"

\* one entry of an ORDER BY list as text: the column, the NULLS placement
\* and the order, single spaces between those given
OrderByEntry(it) ==
    it.col
        \o (IF it.nulls # <<>> THEN <<" ", "NULLS", " ">> \o it.nulls ELSE <<>>)
        \o (IF it.order = <<>> THEN <<>>
            ELSE IF it.order \in {<<"ASC">>, <<"DESC">>} THEN <<" ">> \o it.order
            ELSE <<" ", "USING", " ">> \o it.order)

\* the entries of an ORDER BY list from the i-th on, separated by ', '
RECURSIVE OrderByEntries(_, _)
OrderByEntries(orders, i) ==
    IF i > Len(orders) THEN <<>>
    ELSE IF i = Len(orders) THEN OrderByEntry(orders[i])
    ELSE OrderByEntry(orders[i]) \o <<",", " ">> \o OrderByEntries(orders, i + 1)

\* C26: _construct_order_by returns 'ORDER BY ' followed by one entry per
\* element of the list, in list order, entries separated by ', '; within an
\* entry the column, the optional NULLS token and the optional ASC / DESC /
\* USING token are separated by single spaces, not commas, and an omitted
\* part leaves no separator.
C26_OrderByEntries ==
    (out.op = "_construct_order_by") =>
        /\ out.t = "str"
        /\ out.v[1] = <<"ORDER", " ", "BY", " ">>
              \o OrderByEntries(clists[Get(StatementOf(out.who), "ORDER_BY").n], 1)

\* the lines of the named queries from the i-th on: '<alias> AS (' and ')'
\* around the body, a comma after every query but the last
RECURSIVE WithEntries(_, _, _)
WithEntries(with_query, i, indent) ==
    IF i > Len(with_query) THEN <<>>
    ELSE LET query == with_query[i]
             comma == IF i < Len(with_query) THEN <<",">> ELSE <<>>
             open == query.as \o <<" ", "AS", " ", "(">>
         IN (IF query.expr.k = "str"
             THEN << open \o query.expr.s \o <<")">> \o comma >>
             ELSE << open >>
                    \o add_indent(
                          construct_select_statement(
                              StmtPool[query.expr.n], indent, TRUE).v, indent)
                    \o << <<")">> \o comma >>)
            \o WithEntries(with_query, i + 1, indent)

\* C27: _construct_with_clause emits 'WITH RECURSIVE' as first line exactly
\* when the recursive flag is true and 'WITH' otherwise (an absent flag counts
\* as false), then the named queries in the order given; every entry opens
\* with '<alias> AS (' and is closed by exactly one ')', and a comma follows
\* every entry except the last.
C27_WithClause ==
    (out.op = "_construct_with_clause") =>
        LET w == WithPool[Get(StatementOf(out.who), "WITH").n]
        IN /\ out.t = "list"
           /\ out.v[1] = IF w.recursive = "True" THEN <<"WITH", " ", "RECURSIVE">>
                         ELSE <<"WITH">>
           /\ Tail(out.v) = WithEntries(w.with_query, 1, out.indent)

C27_Witness ==
    /\ out.op = "_construct_with_clause" /\ out.indent = MaxIndent
    /\ WithPool[Get(StatementOf(out.who), "WITH").n].recursive = "True"
    /\ Len(WithPool[Get(StatementOf(out.who), "WITH").n].with_query) = 2
    /\ out.v[2] = <<"c", " ", "AS", " ", "(", "SELECT", " ", "1", ")", ",">>
    /\ out.v[Len(out.v)] = <<")">>

\* C30: for every Param, at every point of any sequence of placeholder reads,
\* renders and changes of Param.Config.param_str, Param.placeholder and
\* Param.get_sql_parts return the same text: the cached placeholder never
\* disagrees with the rendered one.
C30_PlaceholderAgreesWithRender ==
    \A p \in 1..Len(params) :
        params[p].cls = "core_draft" =>
            <<placeholder(p)>> = Param_get_sql_parts(ParamV(params[p].name)).v

====
